---- MODULE Spec2Model ----
(***************************************************************************)
(* Proofora ML service: the scan pipeline (app/scan.py), the similarity    *)
(* engine (app/compare.py) and the two HTTP handlers of app/main.py that   *)
(* drive them.                                                             *)
(*                                                                         *)
(* Images are scaled down: a decoded image is a short row of gray levels   *)
(* 0..MaxGray (R = G = B), already at the working resolution, so that the  *)
(* LANCZOS resize of pil_to_np to the same size is a copy.  Floats are     *)
(* fixed-point numbers with Scale units per 1.0, plus NaN.  Library        *)
(* routines (skimage, imagehash, cv2) are computed on the small row by the *)
(* formula the library uses, in exact arithmetic.                          *)
(***************************************************************************)
EXTENDS Integers, Sequences, FiniteSets, TLC

\* ------------------------------------------------------------------ bounds
MaxGray == 2
MaxClock == 1
MaxChanged == 2
MaxKeypoints == 52
MaxOffset == 30

Calls == {"c1", "c2"}
GrayLevels == 0..MaxGray
Images == GrayLevels \X GrayLevels

\* ------------------------------------------------- configuration (app.config)
\* app/config.py is imported by compare.py, scan.py and main.py but is not
\* among the sources; its values are taken as a static configuration chosen
\* once, before any request.  Weights are in tenths.
PHASH_SIZE == 2
ORB_MAX_FEATURES == 500
WeightChoices == { <<5, 3, 2>>, <<6, 6, 6>> }
WeightScale == 10

\* -------------------------------------------------------------- sequences
RECURSIVE SumSeq(_)
SumSeq(s) == IF s = <<>> THEN 0 ELSE Head(s) + SumSeq(Tail(s))

Dot(s, t) == SumSeq([i \in 1..Len(s) |-> s[i] * t[i]])

MaxOf(s) == CHOOSE m \in {s[i] : i \in 1..Len(s)} : \A i \in 1..Len(s) : s[i] <= m
MinOf(s) == CHOOSE m \in {s[i] : i \in 1..Len(s)} : \A i \in 1..Len(s) : m <= s[i]

RECURSIVE Concat(_)
Concat(ss) == IF ss = <<>> THEN <<>> ELSE Head(ss) \o Concat(Tail(ss))

\* ----------------------------------------------------------------- floats
\* A float is NaN or a fixed-point value of Scale units per 1.0.
Scale == 100000
NaN == [nan |-> TRUE, v |-> 0]
Fl(x) == [nan |-> FALSE, v |-> x]
One == Fl(Scale)
Zero == Fl(0)

\* np.clip(x, lo, hi) = minimum(maximum(x, lo), hi): NaN passes through.
np_clip(x, lo, hi) ==
    IF x.nan THEN NaN
    ELSE IF x.v < lo THEN Fl(lo)
    ELSE IF x.v > hi THEN Fl(hi)
    ELSE x

\* w * x for a weight in tenths, and float addition; NaN is absorbing.
FMulW(w, x) == IF x.nan THEN NaN ELSE Fl(w * x.v)
FAdd(x, y) == IF x.nan \/ y.nan THEN NaN ELSE Fl(x.v + y.v)
FDivW(x) == IF x.nan THEN NaN ELSE Fl(x.v \div WeightScale)

InUnit(x) == ~x.nan /\ 0 <= x.v /\ x.v <= Scale

\* a / b and x * y in Scale units, truncated, by long division and by parts
\* so that every intermediate value stays within 32 bits (b > 0).
FixDivPos(a, b) ==
    LET r0 == a % b
        r1 == (r0 * 100) % b
    IN  (a \div b) * Scale + ((r0 * 100) \div b) * 1000 + (r1 * 1000) \div b
FixDiv(a, b) == IF a < 0 THEN -FixDivPos(-a, b) ELSE FixDivPos(a, b)
FixMulPos(x, y) == (x * (y \div 1000)) \div 100 + (x * (y % 1000)) \div Scale
FixMul(x, y) ==
    LET ax == IF x < 0 THEN -x ELSE x
        ay == IF y < 0 THEN -y ELSE y
    IN  IF (x < 0) # (y < 0) THEN -FixMulPos(ax, ay) ELSE FixMulPos(ax, ay)

\* ------------------------------------------------------------ hex strings
HexDigits == <<"0", "1", "2", "3", "4", "5", "6", "7",
               "8", "9", "a", "b", "c", "d", "e", "f">>

RECURSIVE BitsToInt(_)
BitsToInt(bits) ==
    IF bits = <<>> THEN 0
    ELSE 2 * BitsToInt(SubSeq(bits, 1, Len(bits) - 1)) + bits[Len(bits)]

RECURSIVE HexOfWidth(_, _)
HexOfWidth(n, width) ==
    IF width = 0 THEN <<>>
    ELSE Append(HexOfWidth(n \div 16, width - 1), HexDigits[(n % 16) + 1])

\* str(ImageHash): '{:0>{width}x}'.format(int(bit_string, 2), width=ceil(len/4)).
ImageHashStr(bits) == HexOfWidth(BitsToInt(bits), (Len(bits) + 3) \div 4)

\* hashlib.sha256(m).hexdigest(), taken as an injective map on byte strings.
Sha256Hex(m) == <<"#">> \o m

\* ndarray.tobytes() of the uint8 pixel grid: one byte, here one hex digit,
\* per sample.
ToBytes(px) == [i \in 1..Len(px) |-> HexDigits[px[i] + 1]]

\* ---------------------------------------------------------------- uploads
\* What a client can upload: nothing, bytes that are no image, an image file
\* cut short after its header, or the encoding of an image.
EmptyBytes == [kind |-> "empty", px |-> <<0, 0>>]
GarbageBytes == [kind |-> "garbage", px |-> <<0, 0>>]
TruncatedBytes == [kind |-> "truncated", px |-> <<0, 0>>]
Encode(px) == [kind |-> "image", px |-> px]
Uploads == {EmptyBytes, GarbageBytes, TruncatedBytes} \cup {Encode(px) : px \in Images}
NoBytes == [kind |-> "none", px |-> <<0, 0>>]
\* A length that is never zero for a part that was read.
BytesLen_read(b) == IF b.kind = "none" THEN 0 ELSE 1

\* len(image_bytes), as far as the handlers look at it: zero or not.
BytesLen(b) == IF b.kind \in {"empty", "none"} THEN 0 ELSE 1

\* An outcome of a call that may raise: a value or an exception type.
Ok(x) == [ok |-> TRUE, val |-> x, exc |-> "none"]
Raise(e) == [ok |-> FALSE, val |-> <<0, 0>>, exc |-> e]

\* Image.open(io.BytesIO(image_bytes)): identifies the format from the header
\* and raises UnidentifiedImageError when there is none; pixel data is read
\* later, by the first operation that needs it.
load_image_bytes(image_bytes) ==
    IF image_bytes.kind \in {"empty", "garbage", "none"}
    THEN Raise("UnidentifiedImageError")
    ELSE Ok([px |-> image_bytes.px, truncated |-> image_bytes.kind = "truncated"])

\* pil_img.convert("RGB"): loads the pixel data; a truncated file raises OSError.
ConvertRGB(pil) == IF pil.truncated THEN Raise("OSError") ELSE Ok(pil.px)

\* Image.resize to the working resolution and np.array: a copy for an image
\* that already has it.
pil_to_np(px) == px

\* --------------------------------------------------------- image hashes
IntToBits(n, width) == [i \in 1..width |-> (n \div (2 ^ (width - i))) % 2]
B(cond) == IF cond THEN 1 ELSE 0

\* imagehash.phash: low-frequency transform coefficients against their median.
PHashBits(px) ==
    LET a == px[1]
        c == px[2]
        coef == <<2 * (a + c), 2 * (a - c), 0, 0>>
        n == PHASH_SIZE * PHASH_SIZE
        med2 == SumSeq(coef) - MaxOf(coef) - MinOf(coef)
    IN  [i \in 1..n |-> B(2 * coef[((i - 1) % 4) + 1] > med2)]

\* imagehash.average_hash: each sample against the mean.
AHashBits(px) == [i \in 1..Len(px) |-> B(Len(px) * px[i] > SumSeq(px))]

\* imagehash.dhash: each sample against its left neighbour.
DHashBits(px) == [i \in 1..(Len(px) - 1) |-> B(px[i + 1] > px[i])]

\* imagehash.whash: Haar coefficients against their median.
WHashBits(px) ==
    LET coef == <<px[1] + px[2], px[1] - px[2]>>
    IN  [i \in 1..2 |-> B(2 * coef[i] > SumSeq(coef))]

\* imagehash.colorhash: the share of black and of gray samples, each in a
\* fixed number of bits (the hue bins of a gray image are empty).
ColorHashBits(px) ==
    LET black == Cardinality({i \in 1..Len(px) : px[i] = 0})
        gray == Len(px) - black
    IN  IntToBits(black, 2) \o IntToBits(gray, 2) \o <<0, 0>>

\* The bits of the five image hashes of an image.
HashBitsOf(px) ==
    [perceptual_hash |-> PHashBits(px), average_hash |-> AHashBits(px),
     difference_hash |-> DHashBits(px), wavelet_hash |-> WHashBits(px),
     color_hash |-> ColorHashBits(px)]

\* str() of each image hash, and the digest of the bytes of the pixel grid.
HashStrings(bits, img_np) ==
    [perceptual_hash |-> ImageHashStr(bits.perceptual_hash),
     average_hash |-> ImageHashStr(bits.average_hash),
     difference_hash |-> ImageHashStr(bits.difference_hash),
     wavelet_hash |-> ImageHashStr(bits.wavelet_hash),
     color_hash |-> ImageHashStr(bits.color_hash),
     sha256 |-> Sha256Hex(ToBytes(img_np))]

\* scan.py 37-45: the six hash strings of the image and its pixel grid.
ComputeHashes(px, img_np) == HashStrings(HashBitsOf(px), img_np)

NoHashes ==
    [perceptual_hash |-> <<>>, average_hash |-> <<>>, difference_hash |-> <<>>,
     wavelet_hash |-> <<>>, color_hash |-> <<>>, sha256 |-> <<>>]

\* A fingerprint that joins the hashes in alphabetical order of their names.
create_design_fingerprint_reordered(phash, ahash, dhash, whash, colorhash, sha256_hash) ==
    Sha256Hex(Concat(<<ahash, colorhash, dhash, phash, sha256_hash, whash>>))

\* A fingerprint of the five image hashes only.
create_design_fingerprint_nocontent(phash, ahash, dhash, whash, colorhash, sha256_hash) ==
    Sha256Hex(Concat(<<phash, ahash, dhash, whash, colorhash>>))

\* scan.py 349-353: sha256 of "".join(hashes).
create_design_fingerprint(phash, ahash, dhash, whash, colorhash, sha256_hash) ==
    Sha256Hex(Concat(<<phash, ahash, dhash, whash, colorhash, sha256_hash>>))

\* ------------------------------------------------------ similarity engine
\* skimage.metrics.structural_similarity(g1, g2, data_range=R) over one window
\* of n samples, K1 = 0.01, K2 = 0.03, sample covariance:
\*   S = ((2 ux uy + C1)(2 vxy + C2)) / ((ux^2 + uy^2 + C1)(vx + vy + C2)),
\*   C1 = (K1 R)^2, C2 = (K2 R)^2.
\* Both factors are scaled by 10000 n^2 and 10000 n (n - 1) to stay in the
\* integers.  A zero denominator occurs only with a zero numerator (0/0 = NaN).
structural_similarity(g1, g2, R) ==
    LET n == Len(g1)
        Sx == SumSeq(g1)
        Sy == SumSeq(g2)
        Vx == n * Dot(g1, g1) - Sx * Sx
        Vy == n * Dot(g2, g2) - Sy * Sy
        Vxy == n * Dot(g1, g2) - Sx * Sy
        A1 == 20000 * Sx * Sy + n * n * R * R
        B1 == 10000 * (Sx * Sx + Sy * Sy) + n * n * R * R
        A2 == 20000 * Vxy + 9 * n * (n - 1) * R * R
        B2 == 10000 * (Vx + Vy) + 9 * n * (n - 1) * R * R
    IN  IF B1 = 0 \/ B2 = 0 THEN NaN
        ELSE Fl(FixMul(FixDiv(A1, B1), FixDiv(A2, B2)))

\* compare.py 23-36: rgb2gray of a gray image is the image; the data range is
\* that of the second image only.
compute_ssim(img1_np, img2_np) ==
    LET g1 == img1_np
        g2 == img2_np
        score == structural_similarity(g1, g2, MaxOf(g2) - MinOf(g2))
    IN  np_clip(score, -Scale, Scale)

Hamming(b1, b2) == Cardinality({i \in 1..Len(b1) : b1[i] # b2[i]})

\* A perceptual score that counts only the bits set in the first hash and
\* clear in the second.
compute_phash_similarity_oneway(pil1, pil2) ==
    LET ph1 == PHashBits(pil1)
        ph2 == PHashBits(pil2)
        maxdist == PHASH_SIZE * PHASH_SIZE
        dist == Cardinality({i \in 1..Len(ph1) : ph1[i] = 1 /\ ph2[i] = 0})
        score == Fl(Scale - ((dist * Scale) \div maxdist))
    IN  np_clip(score, 0, Scale)

\* compare.py 40-51.
compute_phash_similarity(pil1, pil2) ==
    LET ph1 == PHashBits(pil1)
        ph2 == PHashBits(pil2)
        maxdist == PHASH_SIZE * PHASH_SIZE
        dist == Hamming(ph1, ph2)
        score == Fl(Scale - ((dist * Scale) \div maxdist))
    IN  np_clip(score, 0, Scale)

\* cv2.ORB detectAndCompute on the gray row: a keypoint wherever a sample
\* differs from its neighbour (none on a flat image), at most nfeatures of
\* them, each with a binary descriptor of intensity tests around it.
Neighbour(i) == IF i = 1 THEN 2 ELSE i - 1
KeypointsOf(gray) ==
    LET all == SelectSeq([i \in 1..Len(gray) |-> i],
                         LAMBDA i : gray[i] # gray[Neighbour(i)])
    IN  SubSeq(all, 1, IF Len(all) < ORB_MAX_FEATURES THEN Len(all) ELSE ORB_MAX_FEATURES)
DescriptorAt(gray, i) ==
    LET p == gray[i]
        q == gray[Neighbour(i)]
    IN  <<B(p < q), B(p > q), B(p - q >= 2 \/ q - p >= 2), B(p >= 2)>>
DescriptorsOf(gray) == [k \in 1..Len(KeypointsOf(gray)) |-> DescriptorAt(gray, KeypointsOf(gray)[k])]

\* NORM_HAMMING over 256-bit descriptors: each descriptor bit of the row stands
\* for a share of the 256 bits, so that distances fall below, on and above
\* the threshold of compute_orb_match_ratio.
DescriptorShare == <<68, 68, 60, 60>>
DescDistance(d1, d2) ==
    SumSeq([i \in 1..Len(d1) |-> IF d1[i] # d2[i] THEN DescriptorShare[i] ELSE 0])

\* cv2.BFMatcher(NORM_HAMMING, crossCheck=True).match: query i is matched to
\* its nearest train descriptor j when i is also the nearest query of j
\* (the first of equally near ones); the result is the list of distances.
Nearest(d, des) ==
    CHOOSE j \in 1..Len(des) :
        /\ \A k \in 1..Len(des) : DescDistance(d, des[j]) <= DescDistance(d, des[k])
        /\ \A k \in 1..(j - 1) : DescDistance(d, des[j]) < DescDistance(d, des[k])
BFMatch(des1, des2) ==
    LET matched == SelectSeq([i \in 1..Len(des1) |-> i],
                             LAMBDA i : Nearest(des2[Nearest(des1[i], des2)], des1) = i)
    IN  [m \in 1..Len(matched) |->
            DescDistance(des1[matched[m]], des2[Nearest(des1[matched[m]], des2)])]

\* A match ratio that counts a match at the threshold distance as good.
compute_orb_match_ratio_inclusive(img1_np, img2_np) ==
    LET des1 == DescriptorsOf(img1_np)
        des2 == DescriptorsOf(img2_np)
        matches == BFMatch(des1, des2)
        good == SelectSeq(matches, LAMBDA d : d <= 60)
        denom == IF Len(matches) > 1 THEN Len(matches) ELSE 1
    IN  IF des1 = <<>> \/ des2 = <<>> THEN Zero
        ELSE IF Len(matches) = 0 THEN Zero
        ELSE np_clip(Fl((Len(good) * Scale) \div denom), 0, Scale)

\* compare.py 54-76.
compute_orb_match_ratio(img1_np, img2_np) ==
    LET des1 == DescriptorsOf(img1_np)
        des2 == DescriptorsOf(img2_np)
        matches == BFMatch(des1, des2)
        good == SelectSeq(matches, LAMBDA d : d < 60)
        denom == IF Len(matches) > 1 THEN Len(matches) ELSE 1
    IN  IF des1 = <<>> \/ des2 = <<>> THEN Zero
        ELSE IF Len(matches) = 0 THEN Zero
        ELSE np_clip(Fl((Len(good) * Scale) \div denom), 0, Scale)

\* compare.py 79-106, from the two loaded images and the configured weights
\* <<SSIM_WEIGHT, PHASH_WEIGHT, ORB_WEIGHT>>.
combined_similarity(pil1, pil2, w) ==
    LET img1_np == pil_to_np(pil1)
        img2_np == pil_to_np(pil2)
        ssim_score == compute_ssim(img1_np, img2_np)
        phash_score == compute_phash_similarity(pil1, pil2)
        orb_score == compute_orb_match_ratio(img1_np, img2_np)
        score == FDivW(FAdd(FAdd(FMulW(w[1], ssim_score), FMulW(w[2], phash_score)),
                            FMulW(w[3], orb_score)))
    IN  [score |-> np_clip(score, 0, Scale),
         breakdown |-> [ssim |-> np_clip(ssim_score, 0, Scale),
                        phash |-> np_clip(phash_score, 0, Scale),
                        orb |-> np_clip(orb_score, 0, Scale)]]

\* ---------------------------------------------------- feature extraction
\* round(x, 2) of the quotient a / b, in hundredths.
Round2(a, b) == (2 * 100 * a + b) \div (2 * b)

\* scan.py 131-184: channel mean, and the most frequent value (np.unique
\* sorts, argmax takes the first maximum) with its share in percent.
extract_color_features(img_np) ==
    LET count(v) == Cardinality({i \in 1..Len(img_np) : img_np[i] = v})
        dom == CHOOSE v \in GrayLevels :
                   /\ \A u \in GrayLevels : count(u) <= count(v)
                   /\ \A u \in GrayLevels : u < v => count(u) < count(v)
    IN  [mean_colors |-> Round2(SumSeq(img_np), Len(img_np)),
         dominant_color |-> [rgb |-> dom,
                             percentage |-> Round2(count(dom) * 100, Len(img_np))]]

\* scan.py 197-221: co-occurrence contrast and dissimilarity of neighbours.
extract_texture_features(img_np) ==
    LET d == img_np[1] - img_np[2]
        ad == IF d < 0 THEN -d ELSE d
    IN  [contrast |-> d * d * 100,
         dissimilarity |-> ad * 100,
         texture_complexity |-> Round2(d * d + ad, 2)]

NoneHash == <<"None">>

\* A keypoint summary that lists every keypoint position.
OrbSummary_uncapped(keypoints, descriptors, total_pixels) ==
    IF Len(keypoints) = 0
    THEN [total_keypoints |-> 0,
          keypoint_positions |-> <<>>,
          feature_descriptor_hash |-> NoneHash,
          keypoint_density |-> 0]
    ELSE [total_keypoints |-> Len(keypoints),
          keypoint_positions |-> keypoints,
          feature_descriptor_hash |->
              IF descriptors # <<>>
              THEN Sha256Hex(Concat([k \in 1..Len(descriptors) |-> ToBytes(descriptors[k])]))
              ELSE NoneHash,
          keypoint_density |-> Round2(Len(keypoints) * 1000, total_pixels)]

\* scan.py 235-258: the summary of what detectAndCompute returned; no
\* descriptors (None) is the empty list, the density is in hundredths.
OrbSummary(keypoints, descriptors, total_pixels) ==
    IF Len(keypoints) = 0
    THEN [total_keypoints |-> 0,
          keypoint_positions |-> <<>>,
          feature_descriptor_hash |-> NoneHash,
          keypoint_density |-> 0]
    ELSE [total_keypoints |-> Len(keypoints),
          keypoint_positions |-> SubSeq(keypoints, 1,
                                  IF Len(keypoints) < 50 THEN Len(keypoints) ELSE 50),
          feature_descriptor_hash |->
              IF descriptors # <<>>
              THEN Sha256Hex(Concat([k \in 1..Len(descriptors) |-> ToBytes(descriptors[k])]))
              ELSE NoneHash,
          keypoint_density |-> Round2(Len(keypoints) * 1000, total_pixels)]

\* scan.py 227-258.
extract_orb_features(img_np) ==
    LET gray == img_np
    IN  OrbSummary(KeypointsOf(gray), DescriptorsOf(gray), Len(gray))

\* scan.py 264-291.
extract_pixel_statistics(img_np) ==
    [brightness |-> Round2(SumSeq(img_np), Len(img_np)),
     min_pixel_value |-> MinOf(img_np),
     max_pixel_value |-> MaxOf(img_np),
     dynamic_range |-> MaxOf(img_np) - MinOf(img_np)]

\* Edge features whose density is taken per pair of neighbours, not per sample.
extract_edge_features_perpair(img_np) ==
    LET step(i) == LET d == img_np[i] - img_np[Neighbour(i)] IN IF d < 0 THEN -d ELSE d
        edges == Cardinality({i \in 1..Len(img_np) : step(i) * 255 >= 200 * MaxGray})
        edge_density == Round2(edges * 100, Len(img_np) - 1)
    IN  [edge_density_percentage |-> edge_density,
         edge_strength |-> Round2(step(1) + step(2), Len(img_np)),
         has_strong_edges |-> edge_density > 500]

\* scan.py 297-315: an edge sample is one whose step to its neighbour, on the
\* 0..255 scale, reaches the upper Canny threshold.
extract_edge_features(img_np) ==
    LET step(i) == LET d == img_np[i] - img_np[Neighbour(i)] IN IF d < 0 THEN -d ELSE d
        edges == Cardinality({i \in 1..Len(img_np) : step(i) * 255 >= 200 * MaxGray})
        edge_density == Round2(edges * 100, Len(img_np))
    IN  [edge_density_percentage |-> edge_density,
         edge_strength |-> Round2(step(1) + step(2), Len(img_np)),
         has_strong_edges |-> edge_density > 500]

\* scan.py 321-343: the spectrum of a two-sample row is |x1 + x2| (centre)
\* and |x1 - x2|; the 1e-10 in the divisor only matters when the low energy
\* is zero, and then the high energy is zero as well.
extract_frequency_features(img_np) ==
    LET low == img_np[1] + img_np[2]
        diff == img_np[1] - img_np[2]
        high == IF diff < 0 THEN -diff ELSE diff
        freq_ratio == IF low = 0 THEN 0 ELSE Round2(high, low)
    IN  [low_frequency_energy |-> low * 100,
         high_frequency_energy |-> high * 100,
         frequency_ratio |-> freq_ratio,
         detail_level |-> IF freq_ratio > 150 THEN "high"
                          ELSE IF freq_ratio > 80 THEN "medium" ELSE "low"]

\* A metadata record whose fingerprint is salted with the scan time.
BuildMetadata_salted(ts, px, hashes, color, texture, orb, pixel, edge, freq, fingerprint) ==
    [scan_timestamp |-> ts,
     image_info |-> [width |-> Len(px), height |-> 1, format |-> "UNKNOWN",
                     mode |-> "RGB", total_pixels |-> Len(px)],
     hashes |-> [h \in DOMAIN hashes \cup {"design_fingerprint"} |->
                    IF h = "design_fingerprint"
                    THEN Append(fingerprint, HexDigits[ts + 1]) ELSE hashes[h]],
     color_analysis |-> color,
     texture_features |-> texture,
     orb_features |-> orb,
     pixel_statistics |-> pixel,
     edge_features |-> edge,
     frequency_features |-> freq,
     scan_metadata |-> [algorithm_version |-> "2.0.0", processing_resolution |-> "512x512"]]

\* scan.py 78-115: the metadata record; scan_timestamp is datetime.utcnow().
BuildMetadata(ts, px, hashes, color, texture, orb, pixel, edge, freq, fingerprint) ==
    [scan_timestamp |-> ts,
     image_info |-> [width |-> Len(px), height |-> 1, format |-> "UNKNOWN",
                     mode |-> "RGB", total_pixels |-> Len(px)],
     hashes |-> [h \in DOMAIN hashes \cup {"design_fingerprint"} |->
                    IF h = "design_fingerprint" THEN fingerprint ELSE hashes[h]],
     color_analysis |-> color,
     texture_features |-> texture,
     orb_features |-> orb,
     pixel_statistics |-> pixel,
     edge_features |-> edge,
     frequency_features |-> freq,
     scan_metadata |-> [algorithm_version |-> "2.0.0", processing_resolution |-> "512x512"]]

MetadataSections ==
    {"scan_timestamp", "image_info", "hashes", "color_analysis", "texture_features",
     "orb_features", "pixel_statistics", "edge_features", "frequency_features",
     "scan_metadata"}

\* ------------------------------------------------------------------ state
VARIABLES
    config,     \* the weights <<SSIM_WEIGHT, PHASH_WEIGHT, ORB_WEIGHT>> of app.config
    pool,       \* the files that clients upload
    now,        \* the wall clock read by datetime.utcnow()
    op,         \* per call: "idle", "scan" (POST /scan) or "compare" (POST /compare)
    pc,         \* per call: the position of the handler
    req,        \* per call: the content types of the uploaded parts
    up,         \* per call: the bytes read from the uploaded parts
    loc,        \* per call: the local variables of the running functions
    result,     \* per call: the value returned by scan_design_for_blockchain
    response,   \* per call: the HTTP response of the handler
    ran,        \* per call: the stages entered so far, in order
    raised,     \* per call: the stage that raised and the exception type
    hsA, hsB,   \* two hash sets given to create_design_fingerprint
    detected,   \* what the ORB detector returned to extract_orb_features
    decided     \* a result of combined_similarity and the response made of it

vars == <<config, pool, now, op, pc, req, up, loc, result, response, ran, raised, hsA, hsB, detected, decided>>
callVars == <<op, pc, req, up, loc, result, response, ran, raised>>

None == [none |-> TRUE]
ContentTypes == {"image/png", "text/plain"}
IsImageType(t) == t = "image/png"

NoLocals ==
    [scan_start_time |-> 0, pil_img |-> None, pil_susp |-> None, px |-> <<>>,
     img_np |-> <<>>, hashes |-> None, color |-> None, texture |-> None,
     orb |-> None, pixel |-> None, edge |-> None, freq |-> None,
     fingerprint |-> None]
NotRaised == [stage |-> "none", exc |-> "none"]

\* The stages of a scan, in program order, and the frames of the traceback
\* when a stage raises (function:line, innermost last).
StageOrder ==
    <<"decode", "convert", "hashing", "color", "texture", "orb",
      "pixel_statistics", "edge", "frequency", "fingerprint", "assemble">>
StageIndex(s) == CHOOSE i \in 1..Len(StageOrder) : StageOrder[i] = s
Traceback(stage) ==
    LET outer == <<"scan_design_for_blockchain:374">>
        inner(l) == outer \o <<l>>
    IN  CASE stage = "decode" -> <<"scan_design_for_blockchain:370", "load_image_bytes:11">>
          [] stage = "convert" -> inner("extract_image_metadata:24")
          [] stage = "hashing" -> inner("extract_image_metadata:37")
          [] stage = "color" -> inner("extract_image_metadata:49") \o <<"extract_color_features:140">>
          [] stage = "texture" -> inner("extract_image_metadata:53") \o <<"extract_texture_features:205">>
          [] stage = "orb" -> inner("extract_image_metadata:57") \o <<"extract_orb_features:233">>
          [] stage = "pixel_statistics" -> inner("extract_image_metadata:61") \o <<"extract_pixel_statistics:267">>
          [] stage = "edge" -> inner("extract_image_metadata:65") \o <<"extract_edge_features:302">>
          [] stage = "frequency" -> inner("extract_image_metadata:69") \o <<"extract_frequency_features:326">>
          [] stage = "fingerprint" -> inner("extract_image_metadata:73") \o <<"create_design_fingerprint:352">>
          [] OTHER -> inner("extract_image_metadata:78")

\* str(e) of the exceptions that occur.
ErrorMessage(exc) ==
    CASE exc = "UnidentifiedImageError" -> "cannot identify image file"
      [] exc = "OSError" -> "image file is truncated"
      [] OTHER -> "out of memory"

\* Any stage can run out of memory.
Try(fault, o) == IF fault THEN Raise("MemoryError") ELSE o

\* An except block that logs and carries on with no value.
StageExcept_swallow(o) == IF o.ok THEN o ELSE Ok(None)

\* The except block of each extract_* function and of extract_image_metadata:
\* log, then re-raise (scan.py 120-128, 186-194, 222-224, 259-261, 292-294,
\* 316-318, 344-346).
StageExcept(o) == o

\* A module-level buffer instead: every call sees the buffer of the first
\* call that filled one.
LocalImg_shared(c) ==
    loc[CHOOSE d \in Calls : \A e \in Calls : loc[e].img_np # <<>> => loc[d].img_np # <<>>].img_np

\* scan.py 32: img_np is a local of the call that made it.
LocalImg(c) == loc[c].img_np

\* An except block that reports one fixed error type for every exception.
ErrorDetails_untyped(exc, start, end, image_bytes, frames) ==
    [success |-> FALSE,
     error_type |-> "ScanError",
     error_message |-> ErrorMessage(exc),
     scan_duration_seconds |-> end - start,
     timestamp |-> end,
     image_bytes_length |-> BytesLen(image_bytes),
     traceback |-> frames,
     message |-> "Scan failed - see error details"]

\* scan.py 395-425: the value returned when anything raised.
ErrorDetails(exc, start, end, image_bytes, frames) ==
    [success |-> FALSE,
     error_type |-> exc,
     error_message |-> ErrorMessage(exc),
     scan_duration_seconds |-> end - start,
     timestamp |-> end,
     image_bytes_length |-> BytesLen(image_bytes),
     traceback |-> frames,
     message |-> "Scan failed - see error details"]

\* scan.py 376-393: the value returned on success.
ScanSuccess(metadata, start, end) ==
    [success |-> TRUE,
     design_id |-> metadata.hashes.design_fingerprint,
     metadata |-> metadata,
     scan_duration_seconds |-> end - start,
     message |-> "Design scanned successfully. Ready for blockchain integration."]

Pending == [pending |-> TRUE]
NoHashSet == [bits |-> NoHashes, px |-> <<>>, hashes |-> NoHashes, fingerprint |-> <<>>]
NoDecision == [result |-> None, response |-> None]
NoDetection == [keypoints |-> <<>>, descriptors |-> <<>>, total_pixels |-> 0, orb |-> None]

\* Two clients at once, uploading from a few files.
ConcurrentUploads ==
    {GarbageBytes, TruncatedBytes, Encode(<<0, 0>>), Encode(<<0, MaxGray>>)}

InitCalls(active) ==
    /\ now = 0
    /\ op = [c \in Calls |-> IF c \in active THEN "idle" ELSE "off"]
    /\ pc = [c \in Calls |-> "idle"]
    /\ req = [c \in Calls |-> <<"none", "none">>]
    /\ up = [c \in Calls |-> <<NoBytes, NoBytes>>]
    /\ loc = [c \in Calls |-> NoLocals]
    /\ result = [c \in Calls |-> Pending]
    /\ response = [c \in Calls |-> Pending]
    /\ ran = [c \in Calls |-> <<>>]
    /\ raised = [c \in Calls |-> NotRaised]

Init ==
    /\ config = <<5, 3, 2>>
    /\ pool = ConcurrentUploads
    /\ InitCalls(Calls)
    /\ hsA = NoHashSet
    /\ hsB = NoHashSet
    /\ detected = NoDetection
    /\ decided = NoDecision

\* One client, any file, any configured weights.
InitSolo ==
    /\ config \in WeightChoices
    /\ pool = Uploads
    /\ InitCalls({"c1"})
    /\ hsA = NoHashSet
    /\ hsB = NoHashSet
    /\ detected = NoDetection
    /\ decided = NoDecision

\* Time passes.
Tick ==
    /\ now < MaxClock
    /\ now' = now + 1
    /\ UNCHANGED <<config, pool, callVars, hsA, hsB, detected, decided>>

\* A request arrives at one of the two endpoints.
Request(c) ==
    /\ op[c] = "idle"
    /\ \E o \in {"scan", "compare"}, t1, t2 \in ContentTypes :
        /\ o = "scan" => t2 = t1
        /\ op' = [op EXCEPT ![c] = o]
        /\ req' = [req EXCEPT ![c] = <<t1, t2>>]
    /\ pc' = [pc EXCEPT ![c] = "validate"]
    /\ UNCHANGED <<config, pool, now, up, loc, result, response, ran, raised, hsA, hsB, detected, decided>>

Respond400(c, error, message) ==
    /\ response' = [response EXCEPT ![c] =
           [status |-> 400, success |-> FALSE, error |-> error, message |-> message]]
    /\ pc' = [pc EXCEPT ![c] = "done"]

\* main.py 80-90.
ScanValidate(c) ==
    /\ op[c] = "scan" /\ pc[c] = "validate"
    /\ IF ~IsImageType(req[c][1])
       THEN Respond400(c, "InvalidFileType",
                       "Invalid file type. Please upload an image (PNG, JPG, JPEG).")
       ELSE pc' = [pc EXCEPT ![c] = "read"] /\ UNCHANGED response
    /\ UNCHANGED <<config, pool, now, op, req, up, loc, result, ran, raised, hsA, hsB, detected, decided>>

\* main.py 92-107: await design.read(), then the empty-file check.
ScanRead(c) ==
    /\ op[c] = "scan" /\ pc[c] = "read"
    /\ \E image_bytes \in pool :
        /\ up' = [up EXCEPT ![c] = <<image_bytes, NoBytes>>]
        /\ IF BytesLen(image_bytes) = 0
           THEN Respond400(c, "EmptyFile",
                           "Empty file received. Please upload a valid image.")
           ELSE pc' = [pc EXCEPT ![c] = "decode"] /\ UNCHANGED response
    /\ UNCHANGED <<config, pool, now, op, req, loc, result, ran, raised, hsA, hsB, detected, decided>>

\* One stage of scan_design_for_blockchain / extract_image_metadata: it stores
\* its value in the locals (stored names the locals it assigns) and goes on,
\* or it raises, and the except block of scan_design_for_blockchain
\* (scan.py 395-425) returns the error details.
ScanStage(c, here, next, o, stored) ==
    /\ op[c] = "scan" /\ pc[c] = here
    /\ ran' = [ran EXCEPT ![c] = Append(@, here)]
    /\ IF o.ok
       THEN /\ loc' = [loc EXCEPT ![c] =
                    [f \in DOMAIN @ |-> IF f \in DOMAIN stored THEN stored[f] ELSE @[f]]]
            /\ pc' = [pc EXCEPT ![c] = next]
            /\ UNCHANGED <<result, raised>>
       ELSE /\ result' = [result EXCEPT ![c] =
                 ErrorDetails(o.exc, loc[c].scan_start_time, now, up[c][1], Traceback(here))]
            /\ raised' = [raised EXCEPT ![c] = [stage |-> here, exc |-> o.exc]]
            /\ pc' = [pc EXCEPT ![c] = "respond"]
            /\ UNCHANGED loc
    /\ UNCHANGED <<config, pool, now, op, req, up, response, hsA, hsB, detected, decided>>

\* scan.py 361-371: the start time is read, then the bytes are opened.
ScanDecode(c) ==
    /\ op[c] = "scan" /\ pc[c] = "decode"
    /\ ran' = [ran EXCEPT ![c] = Append(@, "decode")]
    /\ \E fault \in BOOLEAN :
        LET o == Try(fault, load_image_bytes(up[c][1]))
        IN  IF o.ok
            THEN /\ loc' = [loc EXCEPT ![c].scan_start_time = now, ![c].pil_img = o.val]
                 /\ pc' = [pc EXCEPT ![c] = "convert"]
                 /\ UNCHANGED <<result, raised>>
            ELSE /\ loc' = [loc EXCEPT ![c].scan_start_time = now]
                 /\ result' = [result EXCEPT ![c] =
                       ErrorDetails(o.exc, now, now, up[c][1], Traceback("decode"))]
                 /\ raised' = [raised EXCEPT ![c] = [stage |-> "decode", exc |-> o.exc]]
                 /\ pc' = [pc EXCEPT ![c] = "respond"]
    /\ UNCHANGED <<config, pool, now, op, req, up, response, hsA, hsB, detected, decided>>

\* scan.py 24-33: convert("RGB"), image info, pil_to_np.
ScanConvert(c) ==
    /\ op[c] = "scan" /\ pc[c] = "convert"
    /\ \E fault \in BOOLEAN :
        LET o == Try(fault, ConvertRGB(loc[c].pil_img))
        IN  ScanStage(c, "convert", "hashing", o,
                      [px |-> o.val, img_np |-> pil_to_np(o.val)])

\* scan.py 35-46.
ScanHashing(c) ==
    /\ op[c] = "scan" /\ pc[c] = "hashing"
    /\ \E fault \in BOOLEAN :
        LET o == Try(fault, Ok(ComputeHashes(loc[c].px, LocalImg(c))))
        IN  ScanStage(c, "hashing", "color", o, [hashes |-> o.val])

\* scan.py 48-50.
ScanColor(c) ==
    /\ op[c] = "scan" /\ pc[c] = "color"
    /\ \E fault \in BOOLEAN :
        LET o == StageExcept(Try(fault, Ok(extract_color_features(LocalImg(c)))))
        IN  ScanStage(c, "color", "texture", o, [color |-> o.val])

\* scan.py 52-54.
ScanTexture(c) ==
    /\ op[c] = "scan" /\ pc[c] = "texture"
    /\ \E fault \in BOOLEAN :
        LET o == StageExcept(Try(fault, Ok(extract_texture_features(LocalImg(c)))))
        IN  ScanStage(c, "texture", "orb", o, [texture |-> o.val])

\* scan.py 56-58.
ScanOrb(c) ==
    /\ op[c] = "scan" /\ pc[c] = "orb"
    /\ \E fault \in BOOLEAN :
        LET o == StageExcept(Try(fault, Ok(extract_orb_features(LocalImg(c)))))
        IN  ScanStage(c, "orb", "pixel_statistics", o, [orb |-> o.val])

\* scan.py 60-62.
ScanPixelStatistics(c) ==
    /\ op[c] = "scan" /\ pc[c] = "pixel_statistics"
    /\ \E fault \in BOOLEAN :
        LET o == StageExcept(Try(fault, Ok(extract_pixel_statistics(LocalImg(c)))))
        IN  ScanStage(c, "pixel_statistics", "edge", o, [pixel |-> o.val])

\* scan.py 64-66.
ScanEdge(c) ==
    /\ op[c] = "scan" /\ pc[c] = "edge"
    /\ \E fault \in BOOLEAN :
        LET o == StageExcept(Try(fault, Ok(extract_edge_features(LocalImg(c)))))
        IN  ScanStage(c, "edge", "frequency", o, [edge |-> o.val])

\* scan.py 68-70.
ScanFrequency(c) ==
    /\ op[c] = "scan" /\ pc[c] = "frequency"
    /\ \E fault \in BOOLEAN :
        LET o == StageExcept(Try(fault, Ok(extract_frequency_features(LocalImg(c)))))
        IN  ScanStage(c, "frequency", "fingerprint", o, [freq |-> o.val])

\* scan.py 72-76.
ScanFingerprint(c) ==
    /\ op[c] = "scan" /\ pc[c] = "fingerprint"
    /\ \E fault \in BOOLEAN :
        LET h == loc[c].hashes
            o == Try(fault, Ok(create_design_fingerprint(
                     h.perceptual_hash, h.average_hash, h.difference_hash,
                     h.wavelet_hash, h.color_hash, h.sha256)))
        IN  ScanStage(c, "fingerprint", "assemble", o, [fingerprint |-> o.val])

\* scan.py 78-118 and 374-393: the metadata record is built from the locals,
\* stamped with the current time, and returned with the design id.
ScanAssemble(c) ==
    /\ op[c] = "scan" /\ pc[c] = "assemble"
    /\ ran' = [ran EXCEPT ![c] = Append(@, "assemble")]
    /\ \E fault \in BOOLEAN :
        LET l == loc[c]
            o == Try(fault, Ok(BuildMetadata(now, l.px, l.hashes, l.color, l.texture,
                                             l.orb, l.pixel, l.edge, l.freq, l.fingerprint)))
        IN  IF o.ok
            THEN /\ result' = [result EXCEPT ![c] =
                       ScanSuccess(o.val, l.scan_start_time, now)]
                 /\ UNCHANGED raised
            ELSE /\ result' = [result EXCEPT ![c] =
                       ErrorDetails(o.exc, l.scan_start_time, now, up[c][1],
                                    Traceback("assemble"))]
                 /\ raised' = [raised EXCEPT ![c] = [stage |-> "assemble", exc |-> o.exc]]
    /\ pc' = [pc EXCEPT ![c] = "respond"]
    /\ UNCHANGED <<config, pool, now, op, req, up, loc, response, hsA, hsB, detected, decided>>

\* main.py 113-147: the handler turns the returned value into the response.
ScanRespond(c) ==
    /\ op[c] = "scan" /\ pc[c] = "respond"
    /\ response' = [response EXCEPT ![c] =
          IF ~result[c].success
          THEN [status |-> 500, success |-> FALSE,
                error |-> result[c].error_type,
                message |-> result[c].error_message,
                traceback |-> result[c].traceback]
          ELSE [status |-> 200, success |-> TRUE,
                design_id |-> result[c].design_id,
                designId |-> result[c].design_id,
                metadata |-> result[c].metadata,
                scan_duration |-> result[c].scan_duration_seconds,
                scanDuration |-> result[c].scan_duration_seconds,
                message |-> result[c].message]]
    /\ pc' = [pc EXCEPT ![c] = "done"]
    /\ UNCHANGED <<config, pool, now, op, req, up, loc, result, ran, raised, hsA, hsB, detected, decided>>

\* ------------------------------------------------------------ POST /compare
\* The decision threshold of app.config, in Scale units.
SIMILARITY_THRESHOLD == 75000

\* round(x, 4) of a float that is not negative: the nearest multiple of
\* 0.0001; NaN stays NaN.
Round4(x) ==
    LET u == Scale \div 10000
    IN  IF x.nan THEN NaN ELSE Fl(((2 * x.v + u) \div (2 * u)) * u)

\* A response whose decision is taken on the rounded score it reports.
CompareResponse_rounded(r, threshold) ==
    LET score == Round4(r.score)
        is_plagiarism == ~score.nan /\ score.v >= threshold
    IN  [status |-> 200, success |-> TRUE,
         similarity_score |-> Round4(r.score),
         similarityScore |-> Round4(r.score),
         is_plagiarism |-> is_plagiarism,
         isPlagiarism |-> is_plagiarism,
         breakdown |-> r.breakdown,
         threshold |-> threshold,
         message |-> IF is_plagiarism THEN "Plagiarism detected"
                     ELSE "No plagiarism detected"]

\* main.py 236-253: the decision on the score of the result, and the response;
\* a comparison with NaN is false.
CompareResponse(r, threshold) ==
    LET score == r.score
        is_plagiarism == ~score.nan /\ score.v >= threshold
    IN  [status |-> 200, success |-> TRUE,
         similarity_score |-> Round4(score),
         similarityScore |-> Round4(score),
         is_plagiarism |-> is_plagiarism,
         isPlagiarism |-> is_plagiarism,
         breakdown |-> r.breakdown,
         threshold |-> threshold,
         message |-> IF is_plagiarism THEN "Plagiarism detected"
                     ELSE "No plagiarism detected"]

\* main.py 255-268: whatever was raised is reported as a ComparisonError.
ComparisonFailed(c, stage, exc) ==
    /\ response' = [response EXCEPT ![c] =
           [status |-> 500, success |-> FALSE, error |-> "ComparisonError",
            message |-> <<"Comparison failed: ", ErrorMessage(exc)>>]]
    /\ raised' = [raised EXCEPT ![c] = [stage |-> stage, exc |-> exc]]
    /\ pc' = [pc EXCEPT ![c] = "done"]

\* main.py 190-209.
CompareValidate(c) ==
    /\ op[c] = "compare" /\ pc[c] = "validate"
    /\ IF ~IsImageType(req[c][1])
       THEN Respond400(c, "InvalidFileType", "Original file must be an image")
       ELSE IF ~IsImageType(req[c][2])
       THEN Respond400(c, "InvalidFileType", "Suspect file must be an image")
       ELSE pc' = [pc EXCEPT ![c] = "read"] /\ UNCHANGED response
    /\ UNCHANGED <<config, pool, now, op, req, up, loc, result, ran, raised, hsA, hsB, detected, decided>>

\* main.py 211-226: both parts are read, then the empty-file check.
CompareRead(c) ==
    /\ op[c] = "compare" /\ pc[c] = "read"
    /\ \E original_bytes, suspect_bytes \in pool :
        /\ up' = [up EXCEPT ![c] = <<original_bytes, suspect_bytes>>]
        /\ IF BytesLen(original_bytes) = 0 \/ BytesLen(suspect_bytes) = 0
           THEN Respond400(c, "EmptyFile", "Empty files received")
           ELSE pc' = [pc EXCEPT ![c] = "load"] /\ UNCHANGED response
    /\ UNCHANGED <<config, pool, now, op, req, loc, result, ran, raised, hsA, hsB, detected, decided>>

\* main.py 228-231.
CompareLoad(c) ==
    /\ op[c] = "compare" /\ pc[c] = "load"
    /\ ran' = [ran EXCEPT ![c] = Append(@, "decode")]
    /\ LET pil_orig == load_image_bytes(up[c][1])
           pil_susp == load_image_bytes(up[c][2])
       IN  IF ~pil_orig.ok THEN ComparisonFailed(c, "decode", pil_orig.exc) /\ UNCHANGED loc
           ELSE IF ~pil_susp.ok THEN ComparisonFailed(c, "decode", pil_susp.exc) /\ UNCHANGED loc
           ELSE /\ loc' = [loc EXCEPT ![c].pil_img = pil_orig.val, ![c].pil_susp = pil_susp.val]
                /\ pc' = [pc EXCEPT ![c] = "similarity"]
                /\ UNCHANGED <<response, raised>>
    /\ UNCHANGED <<config, pool, now, op, req, up, result, hsA, hsB, detected, decided>>

\* main.py 233-253 with compare.py 79-87: combined_similarity converts both
\* images, computes the result, and the handler decides and responds.
CompareSimilarity(c) ==
    /\ op[c] = "compare" /\ pc[c] = "similarity"
    /\ ran' = [ran EXCEPT ![c] = Append(@, "similarity")]
    /\ \E fault \in BOOLEAN :
        LET pil1 == ConvertRGB(loc[c].pil_img)
            pil2 == ConvertRGB(loc[c].pil_susp)
        IN  IF ~pil1.ok THEN ComparisonFailed(c, "convert", pil1.exc) /\ UNCHANGED result
            ELSE IF ~pil2.ok THEN ComparisonFailed(c, "convert", pil2.exc) /\ UNCHANGED result
            ELSE IF fault THEN ComparisonFailed(c, "similarity", "MemoryError") /\ UNCHANGED result
            ELSE LET r == combined_similarity(pil1.val, pil2.val, config)
                 IN  /\ result' = [result EXCEPT ![c] = r]
                     /\ response' = [response EXCEPT ![c] =
                            CompareResponse(r, SIMILARITY_THRESHOLD)]
                     /\ pc' = [pc EXCEPT ![c] = "done"]
                     /\ UNCHANGED raised
    /\ UNCHANGED <<config, pool, now, op, req, up, loc, hsA, hsB, detected, decided>>

\* ------------------------------------------------------------ specification
Next ==
    \/ Tick
    \/ \E c \in Calls : Request(c)
    \/ \E c \in Calls : ScanValidate(c)
    \/ \E c \in Calls : ScanRead(c)
    \/ \E c \in Calls : ScanDecode(c)
    \/ \E c \in Calls : ScanConvert(c)
    \/ \E c \in Calls : ScanHashing(c)
    \/ \E c \in Calls : ScanColor(c)
    \/ \E c \in Calls : ScanTexture(c)
    \/ \E c \in Calls : ScanOrb(c)
    \/ \E c \in Calls : ScanPixelStatistics(c)
    \/ \E c \in Calls : ScanEdge(c)
    \/ \E c \in Calls : ScanFrequency(c)
    \/ \E c \in Calls : ScanFingerprint(c)
    \/ \E c \in Calls : ScanAssemble(c)
    \/ \E c \in Calls : ScanRespond(c)
    \/ \E c \in Calls : CompareValidate(c)
    \/ \E c \in Calls : CompareRead(c)
    \/ \E c \in Calls : CompareLoad(c)
    \/ \E c \in Calls : CompareSimilarity(c)

Spec == Init /\ [][Next]_vars

SpecSolo == InitSolo /\ [][Next]_vars

\* ------------------------------------------------- the fingerprint builder
\* create_design_fingerprint on its own: the hash set of an image as
\* extract_image_metadata passes it (scan.py 37-45, 73-75), and a second one
\* that starts equal and has one member changed at a time: a bit of one of
\* the five image hashes, or the pixel grid under the content hash.
PerceptualFields ==
    {"perceptual_hash", "average_hash", "difference_hash", "wavelet_hash", "color_hash"}
FingerprintOf(h) ==
    create_design_fingerprint(h.perceptual_hash, h.average_hash, h.difference_hash,
                              h.wavelet_hash, h.color_hash, h.sha256)
HashSetOf(bits, img_np) ==
    [bits |-> bits, px |-> img_np, hashes |-> HashStrings(bits, img_np),
     fingerprint |-> FingerprintOf(HashStrings(bits, img_np))]

InitFP ==
    /\ config = <<5, 3, 2>>
    /\ pool = ConcurrentUploads
    /\ InitCalls({})
    /\ hsA \in {HashSetOf(HashBitsOf(b.px), pil_to_np(b.px)) : b \in {u \in pool : u.kind = "image"}}
    /\ hsB = hsA
    /\ detected = NoDetection
    /\ decided = NoDecision

\* The members in which two hash sets differ; the second set is kept within
\* MaxChanged members of the first.
DiffMembers(a, b) == {f \in DOMAIN a.hashes : a.hashes[f] # b.hashes[f]}

\* One bit of one of the five image hashes of the second set flips.
ChangeImageHash ==
    /\ \E field \in PerceptualFields :
        \E i \in 1..Len(hsB.bits[field]) :
            hsB' = HashSetOf([hsB.bits EXCEPT ![field][i] = 1 - @], hsB.px)
    /\ Cardinality(DiffMembers(hsA, hsB')) <= MaxChanged
    /\ UNCHANGED <<config, pool, now, callVars, hsA, detected, decided>>

\* The content hash of the second set becomes that of another pixel grid.
ChangeContentHash ==
    /\ \E px \in Images : hsB' = HashSetOf(hsB.bits, px)
    /\ Cardinality(DiffMembers(hsA, hsB')) <= MaxChanged
    /\ UNCHANGED <<config, pool, now, callVars, hsA, detected, decided>>

NextFP == ChangeImageHash \/ ChangeContentHash

SpecFP == InitFP /\ [][NextFP]_vars

\* ------------------------------------------------------ the keypoint summary
\* The summary of extract_orb_features on its own (scan.py 235-258), for
\* whatever detectAndCompute returned: keypoints in detection order (by
\* response, so not by position), one descriptor per keypoint, on a grid of
\* the model's size, of 64 x 64 or of 512 x 512 samples.
PixelCounts == {2, 64 * 64, 512 * 512}
KeypointAt(i) == ((i * 37) % 101) + 1

InitOrb ==
    /\ config = <<5, 3, 2>>
    /\ pool = ConcurrentUploads
    /\ InitCalls({})
    /\ hsA = NoHashSet
    /\ hsB = NoHashSet
    /\ detected \in {[NoDetection EXCEPT !.total_pixels = t] : t \in PixelCounts}
    /\ decided = NoDecision

\* The detector returns one more keypoint and its descriptor.
DetectKeypoint ==
    /\ detected.orb = None
    /\ Len(detected.keypoints) < MaxKeypoints
    /\ LET i == Len(detected.keypoints) + 1
       IN  detected' = [detected EXCEPT !.keypoints = Append(@, KeypointAt(i)),
                                        !.descriptors = Append(@, IntToBits(i % 16, 4))]
    /\ UNCHANGED <<config, pool, now, callVars, hsA, hsB, decided>>

\* scan.py 235-258: the summary is built from what was detected.
SummariseKeypoints ==
    /\ detected.orb = None
    /\ detected' = [detected EXCEPT !.orb =
           OrbSummary(detected.keypoints, detected.descriptors, detected.total_pixels)]
    /\ UNCHANGED <<config, pool, now, callVars, hsA, hsB, decided>>

NextOrb == DetectKeypoint \/ SummariseKeypoints

SpecOrb == InitOrb /\ [][NextOrb]_vars

\* ------------------------------------------------------------- the decision
\* The decision of compare_designs on its own (main.py 236-253), for results
\* of combined_similarity whose score lies within MaxOffset units of the
\* threshold, or is 0, 1 or NaN; the three sub-scores are taken equal, which
\* gives that score under weights that sum to 1.
ScoreSamples ==
    {Fl(v) : v \in (SIMILARITY_THRESHOLD - MaxOffset)..(SIMILARITY_THRESHOLD + MaxOffset)}
        \cup {Zero, One, NaN}
ResultOf(x) ==
    [score |-> np_clip(x, 0, Scale),
     breakdown |-> [ssim |-> np_clip(x, 0, Scale), phash |-> np_clip(x, 0, Scale),
                    orb |-> np_clip(x, 0, Scale)]]

InitDecide ==
    /\ config = <<5, 3, 2>>
    /\ pool = ConcurrentUploads
    /\ InitCalls({})
    /\ hsA = NoHashSet
    /\ hsB = NoHashSet
    /\ detected = NoDetection
    /\ decided \in {[NoDecision EXCEPT !.result = ResultOf(x)] : x \in ScoreSamples}

\* main.py 236-253.
Decide ==
    /\ decided.response = None
    /\ decided' = [decided EXCEPT !.response =
           CompareResponse(decided.result, SIMILARITY_THRESHOLD)]
    /\ UNCHANGED <<config, pool, now, callVars, hsA, hsB, detected>>

NextDecide == Decide

SpecDecide == InitDecide /\ [][NextDecide]_vars

\* ------------------------------------------------------------------ claims
ScanReturned(c) == op[c] = "scan" /\ pc[c] \in {"respond", "done"} /\ result[c] # Pending
ScanSucceeded(c) == ScanReturned(c) /\ result[c].success
ScanFailed(c) == ScanReturned(c) /\ ~result[c].success
CompareReturned(c) == op[c] = "compare" /\ pc[c] = "done" /\ result[c] # Pending
IsUniform(px) == \A i \in 1..Len(px) : px[i] = px[1]

\* C1: for every pair of valid images and any configured weights, the score
\* returned by combined_similarity and each of the three breakdown components
\* lie in [0, 1].
C1_ScoreInUnitRange ==
    \A c \in Calls :
        CompareReturned(c) =>
            /\ InUnit(result[c].score)
            /\ InUnit(result[c].breakdown.ssim)
            /\ InUnit(result[c].breakdown.phash)
            /\ InUnit(result[c].breakdown.orb)

\* C2: for every valid image compared with itself, the breakdown reports a
\* structural similarity of exactly 1.0 and a perceptual similarity of
\* exactly 1.0.
C2_SelfSimilarity ==
    \A c \in Calls :
        (CompareReturned(c) /\ up[c][1] = up[c][2]) =>
            /\ result[c].breakdown.ssim = One
            /\ result[c].breakdown.phash = One

\* C3, as stated: two scans of byte-identical input, made at any two times,
\* return equal metadata records (every field) and equal fingerprints.
C3_IdenticalMetadata ==
    \A c, d \in Calls :
        (ScanSucceeded(c) /\ ScanSucceeded(d) /\ up[c][1] = up[d][1]) =>
            /\ result[c].metadata = result[d].metadata
            /\ result[c].design_id = result[d].design_id

\* C3, amended: two scans of byte-identical input, made at any two times,
\* return metadata records equal in every field but scan_timestamp, and equal
\* design fingerprints.
C3_IdenticalButTimestamp ==
    \A c, d \in Calls :
        (ScanSucceeded(c) /\ ScanSucceeded(d) /\ up[c][1] = up[d][1]) =>
            /\ [result[c].metadata EXCEPT !.scan_timestamp = 0]
                   = [result[d].metadata EXCEPT !.scan_timestamp = 0]
            /\ result[c].metadata.hashes.design_fingerprint
                   = result[d].metadata.hashes.design_fingerprint
            /\ result[c].design_id = result[d].design_id

C3_Witness ==
    \E c, d \in Calls :
        /\ c # d /\ ScanSucceeded(c) /\ ScanSucceeded(d) /\ up[c][1] = up[d][1]
        /\ result[c].metadata.scan_timestamp # result[d].metadata.scan_timestamp

FeatureSections ==
    {"image_info", "hashes", "color_analysis", "texture_features", "orb_features",
     "pixel_statistics", "edge_features", "frequency_features", "scan_metadata"}

\* C4: a scan returns either success with a metadata record that has every
\* section, each populated, or failure with no metadata and no design id;
\* when a stage raises, the stages entered are exactly those up to it, so no
\* later stage has run.
C4_AllOrNothing ==
    \A c \in Calls :
        ScanReturned(c) =>
            IF result[c].success
            THEN /\ DOMAIN result[c].metadata = MetadataSections
                 /\ \A s \in FeatureSections : result[c].metadata[s] # None
                 /\ result[c].metadata.hashes.design_fingerprint # None
                 /\ "design_id" \in DOMAIN result[c]
                 /\ raised[c] = NotRaised
                 /\ ran[c] = StageOrder
            ELSE /\ "metadata" \notin DOMAIN result[c]
                 /\ "design_id" \notin DOMAIN result[c]
                 /\ raised[c].stage \in {StageOrder[i] : i \in 1..Len(StageOrder)}
                 /\ ran[c] = SubSeq(StageOrder, 1, StageIndex(raised[c].stage))

C4_Witness ==
    \E c \in Calls : ScanFailed(c) /\ raised[c].stage = "texture" /\ pc[c] = "done"

\* The fields of a returned value that hold a name or a text.
TextFields == {"stage", "failed_stage", "error_type", "error_message", "message"}

\* C5, as stated: when a stage raises, the returned failure has success =
\* false and carries a tag naming the failing stage, a message and the
\* elapsed time.
C5_NamesFailingStage ==
    \A c \in Calls :
        ScanFailed(c) =>
            /\ \E f \in DOMAIN result[c] \cap TextFields : result[c][f] = raised[c].stage
            /\ "error_message" \in DOMAIN result[c]
            /\ "scan_duration_seconds" \in DOMAIN result[c]

\* C5, amended: when a stage raises, the returned failure has success = false
\* and carries the type name of the exception, its message and the elapsed
\* time; no field names the failing stage.
C5_NamesExceptionType ==
    \A c \in Calls :
        ScanFailed(c) =>
            /\ result[c].error_type = raised[c].exc
            /\ result[c].error_message = ErrorMessage(raised[c].exc)
            /\ result[c].scan_duration_seconds = result[c].timestamp - loc[c].scan_start_time
            /\ result[c].scan_duration_seconds >= 0
            /\ \A f \in DOMAIN result[c] \cap TextFields : result[c][f] # raised[c].stage

C5_Witness ==
    \E c \in Calls :
        /\ ScanFailed(c) /\ raised[c].stage = "edge"
        /\ result[c].scan_duration_seconds > 0

\* C6: the design fingerprint is the hash of the six hash strings joined in
\* the order perceptual, average, difference, wavelet, color, sha256, and the
\* design id of a successful scan is that fingerprint.
C6_FingerprintOfSixHashes ==
    \A c \in Calls :
        ScanSucceeded(c) =>
            LET h == result[c].metadata.hashes
            IN  /\ h.design_fingerprint =
                       Sha256Hex(h.perceptual_hash \o h.average_hash \o h.difference_hash
                                 \o h.wavelet_hash \o h.color_hash \o h.sha256)
                /\ result[c].design_id = h.design_fingerprint

C6_Witness ==
    \E c \in Calls : ScanSucceeded(c) /\ ~IsUniform(up[c][1].px) /\ pc[c] = "done"

\* C7: two hash sets that differ in at least one member (in particular in
\* exactly one) never have the same fingerprint.
C7_FingerprintInjective ==
    hsA.hashes # hsB.hashes => hsA.fingerprint # hsB.fingerprint

C7_Witness ==
    /\ Cardinality(DiffMembers(hsA, hsB)) = 2
    /\ "sha256" \in DiffMembers(hsA, hsB)
    /\ hsA.fingerprint # hsB.fingerprint

\* C8: a solid-color image compared with itself has structural = 1.0,
\* perceptual = 1.0, keypoint = 0.0 and the score w1 * 1 + w2 * 1 + w3 * 0.
C8_SolidColorSelfCompare ==
    \A c \in Calls :
        (CompareReturned(c) /\ up[c][1] = up[c][2] /\ IsUniform(up[c][1].px)) =>
            /\ result[c].breakdown.ssim = One
            /\ result[c].breakdown.phash = One
            /\ result[c].breakdown.orb = Zero
            /\ result[c].score =
                   np_clip(Fl(((config[1] + config[2]) * Scale) \div WeightScale), 0, Scale)

\* What a scan of these bytes returns on its own, given where it raised (if
\* anywhere) and the two times it read the clock.
SoloScan(image_bytes, r, start, end) ==
    LET px == image_bytes.px
        img_np == pil_to_np(px)
        h == ComputeHashes(px, img_np)
    IN  IF r.stage = "none"
        THEN ScanSuccess(
                 BuildMetadata(end, px, h, extract_color_features(img_np),
                     extract_texture_features(img_np), extract_orb_features(img_np),
                     extract_pixel_statistics(img_np), extract_edge_features(img_np),
                     extract_frequency_features(img_np),
                     create_design_fingerprint(h.perceptual_hash, h.average_hash,
                         h.difference_hash, h.wavelet_hash, h.color_hash, h.sha256)),
                 start, end)
        ELSE ErrorDetails(r.exc, start, end, image_bytes, Traceback(r.stage))

\* The errors a call's own input can cause, besides running out of memory.
OwnError(c) ==
    /\ raised[c].exc = "UnidentifiedImageError" =>
           \E i \in 1..2 : up[c][i].kind = "garbage"
    /\ raised[c].exc = "OSError" => \E i \in 1..2 : up[c][i].kind = "truncated"

\* C9: whatever calls run concurrently and however their steps interleave,
\* each call's result is the one it gives running alone on its own input (for
\* the times at which it read the clock), and a call's locals hold only data
\* of its own input.
C9_CallsIsolated ==
    \A c \in Calls :
        /\ OwnError(c)
        /\ loc[c].img_np # <<>> => loc[c].img_np = pil_to_np(up[c][1].px)
        /\ ScanReturned(c) =>
               result[c] = SoloScan(up[c][1], raised[c], loc[c].scan_start_time,
                                    IF result[c].success
                                    THEN result[c].metadata.scan_timestamp
                                    ELSE result[c].timestamp)
        /\ CompareReturned(c) =>
               result[c] = combined_similarity(up[c][1].px, up[c][2].px, config)

C9_Witness ==
    \E c, d \in Calls :
        /\ c # d /\ ScanSucceeded(c) /\ pc[c] = "done"
        /\ op[d] = "scan" /\ pc[d] \in {"orb", "pixel_statistics", "edge"}
        /\ up[d][1] # up[c][1]
        /\ loc[d].scan_start_time < result[c].metadata.scan_timestamp

\* C10: a decode failure reaches the caller with the decode error's own type,
\* in the scan operation and in the compare operation.
C10_DecodeErrorUnchanged ==
    \A c \in Calls :
        (pc[c] = "done" /\ raised[c].stage = "decode"
            /\ raised[c].exc = "UnidentifiedImageError") =>
                response[c].error = raised[c].exc

\* The request of call c is one the handler turns away: a part whose content
\* type is not image/*, or a part that was read and is empty.
Rejectable(c) ==
    \/ ~IsImageType(req[c][1]) /\ req[c][1] # "none"
    \/ op[c] = "compare" /\ ~IsImageType(req[c][2])
    \/ \E i \in 1..2 : up[c][i].kind = "empty"

\* A part that was read is not empty and is no readable image file.
Malformed(c) == \E i \in 1..2 : up[c][i].kind \in {"garbage", "truncated"}

Entered(c, stage) == \E i \in 1..Len(ran[c]) : ran[c][i] = stage

\* scan_design_for_blockchain (entered at its decode step) or
\* combined_similarity has been invoked for call c.
CoreInvoked(c) ==
    \/ op[c] = "scan" /\ Entered(c, "decode")
    \/ op[c] = "compare" /\ Entered(c, "similarity")

\* C11, as stated: scan_design_for_blockchain and combined_similarity are
\* never invoked for a request whose bytes are empty or malformed or whose
\* content type is not image/*; the request ends in an error response.
C11_RejectedBeforeCore ==
    \A c \in Calls :
        (Rejectable(c) \/ Malformed(c)) =>
            /\ ~CoreInvoked(c)
            /\ pc[c] = "done" => ~response[c].success

\* C11, amended: a request with a content type that is not image/* or with an
\* empty part ends in a 400 response and nothing of the core is invoked, not
\* even the decoder.  A request with a malformed part ends in an error
\* response as well, but only after the core was reached: a scan hands the
\* bytes to scan_design_for_blockchain, which raises at decode or at
\* convert("RGB") before any hash or feature stage; a compare raises in
\* load_image_bytes before combined_similarity when a part is no image, and
\* inside combined_similarity when a part is a truncated image file; no
\* similarity result is returned.
C11_RejectedOrFailsAtDecode ==
    \A c \in Calls :
        /\ Rejectable(c) =>
               /\ ran[c] = <<>> /\ result[c] = Pending
               /\ pc[c] = "done" => response[c].status = 400
        /\ (Malformed(c) /\ ~Rejectable(c)) =>
               /\ \A i \in 1..Len(ran[c]) : ran[c][i] \in {"decode", "convert", "similarity"}
               /\ (op[c] = "compare" /\ \E i \in 1..2 : up[c][i].kind = "garbage")
                      => ~Entered(c, "similarity")
               /\ (op[c] = "compare" /\ pc[c] = "done") =>
                      /\ result[c] = Pending
                      /\ Entered(c, "similarity") <=> raised[c].stage # "decode"
               /\ ScanReturned(c) => ~result[c].success
               /\ pc[c] = "done" => (response[c].status = 500 /\ ~response[c].success)

C11_Witness ==
    \E c \in Calls :
        /\ op[c] = "scan" /\ pc[c] = "done" /\ up[c][1].kind = "garbage"
        /\ CoreInvoked(c) /\ response[c].status = 500

\* C12: in every successfully extracted metadata record the edge density is a
\* percentage in [0, 100], the frequency ratio is >= 0 and the keypoint
\* density is >= 0 (all three are kept in hundredths).
C12_FeatureRanges ==
    \A c \in Calls :
        ScanSucceeded(c) =>
            LET m == result[c].metadata
            IN  /\ 0 <= m.edge_features.edge_density_percentage
                /\ m.edge_features.edge_density_percentage <= 100 * 100
                /\ m.frequency_features.frequency_ratio >= 0
                /\ m.orb_features.keypoint_density >= 0

C12_Witness ==
    \E c \in Calls :
        /\ ScanSucceeded(c)
        /\ result[c].metadata.edge_features.edge_density_percentage = 100 * 100
        /\ result[c].metadata.frequency_features.frequency_ratio > 0
        /\ result[c].metadata.orb_features.keypoint_density > 0

\* The grayscale dynamic range max - min that compute_ssim takes from an image.
DataRange(px) == MaxOf(px) - MinOf(px)

\* C13: the perceptual sub-score of a comparison is the same in both orders
\* of the two images, while the structural sub-metric can differ between the
\* orders, and differs only for images of different dynamic range, the range
\* being taken from the second argument alone.
C13_OrderDependence ==
    \A c \in Calls :
        CompareReturned(c) =>
            LET a == up[c][1].px
                b == up[c][2].px
                swapped == combined_similarity(b, a, config)
            IN  /\ result[c].breakdown.phash = swapped.breakdown.phash
                /\ compute_phash_similarity(a, b) = compute_phash_similarity(b, a)
                /\ compute_ssim(pil_to_np(a), pil_to_np(b)) # compute_ssim(pil_to_np(b), pil_to_np(a))
                       => DataRange(a) # DataRange(b)

C13_Witness ==
    \E c \in Calls :
        /\ CompareReturned(c)
        /\ compute_ssim(pil_to_np(up[c][1].px), pil_to_np(up[c][2].px))
               # compute_ssim(pil_to_np(up[c][2].px), pil_to_np(up[c][1].px))
        /\ result[c].breakdown.ssim
               # combined_similarity(up[c][2].px, up[c][1].px, config).breakdown.ssim
        /\ ~result[c].breakdown.ssim.nan
        /\ ~combined_similarity(up[c][2].px, up[c][1].px, config).breakdown.ssim.nan

\* The weighted sum of three sub-scores with the configured weights, clipped.
WeightedScore(w, s, p, k) ==
    np_clip(Fl((w[1] * s.v + w[2] * p.v + w[3] * k.v) \div WeightScale), 0, Scale)

\* C14: the score is clip(w1 * structural + w2 * perceptual + w3 * keypoint,
\* 0, 1) with the structural value entering the sum raw, a signed value in
\* [-1, 1]; the breakdown reports each sub-score clipped to [0, 1]; so a
\* negative structural value lowers the score while the breakdown shows
\* structural = 0.
C14_SignedStructural ==
    \A c \in Calls :
        CompareReturned(c) =>
            LET a == up[c][1].px
                b == up[c][2].px
                s == compute_ssim(pil_to_np(a), pil_to_np(b))
                p == compute_phash_similarity(a, b)
                k == compute_orb_match_ratio(pil_to_np(a), pil_to_np(b))
            IN  /\ ~s.nan /\ -Scale <= s.v /\ s.v <= Scale
                /\ result[c].score = WeightedScore(config, s, p, k)
                /\ result[c].breakdown.ssim = (IF s.v < 0 THEN Zero ELSE s)
                /\ result[c].breakdown.phash = p /\ InUnit(p)
                /\ result[c].breakdown.orb = k /\ InUnit(k)
                /\ s.v < 0 =>
                       result[c].score.v <= WeightedScore(config, Zero, p, k).v

\* The same for the comparisons whose structural value is a number.
C14_SignedStructuralOfNumbers ==
    \A c \in Calls :
        (CompareReturned(c) /\ ~result[c].breakdown.ssim.nan) =>
            LET a == up[c][1].px
                b == up[c][2].px
                s == compute_ssim(pil_to_np(a), pil_to_np(b))
                p == compute_phash_similarity(a, b)
                k == compute_orb_match_ratio(pil_to_np(a), pil_to_np(b))
            IN  /\ ~s.nan /\ -Scale <= s.v /\ s.v <= Scale
                /\ result[c].score = WeightedScore(config, s, p, k)
                /\ result[c].breakdown = [ssim |-> IF s.v < 0 THEN Zero ELSE s,
                                          phash |-> p, orb |-> k]
                /\ s.v < 0 =>
                       result[c].score.v <= WeightedScore(config, Zero, p, k).v

\* A comparison whose negative structural value lowers the score.
C14_NegativeLowers ==
    \E c \in Calls :
        /\ CompareReturned(c) /\ result[c].breakdown.ssim = Zero
        /\ compute_ssim(pil_to_np(up[c][1].px), pil_to_np(up[c][2].px)).v < 0
        /\ result[c].score.v > 0
        /\ result[c].score.v <
               WeightedScore(config, Zero, result[c].breakdown.phash,
                             result[c].breakdown.orb).v

\* C15: the keypoint ratio is 0 when either image has no descriptors, 0 when
\* the cross-checked matcher returns no match, and otherwise the number of
\* matches of distance < 60 over the number of all matches, a value in
\* [0, 1]; a match of distance exactly 60 is not counted as good.
C15_OrbMatchRatio ==
    \A c \in Calls :
        CompareReturned(c) =>
            LET des1 == DescriptorsOf(pil_to_np(up[c][1].px))
                des2 == DescriptorsOf(pil_to_np(up[c][2].px))
                matches == IF des1 = <<>> \/ des2 = <<>> THEN <<>> ELSE BFMatch(des1, des2)
                below == Cardinality({i \in 1..Len(matches) : matches[i] <= 59})
                ratio == result[c].breakdown.orb
            IN  /\ InUnit(ratio)
                /\ (des1 = <<>> \/ des2 = <<>>) => ratio = Zero
                /\ Len(matches) = 0 => ratio = Zero
                /\ Len(matches) > 0 => ratio = Fl((below * Scale) \div Len(matches))
                /\ ratio = compute_orb_match_ratio(pil_to_np(up[c][1].px),
                                                   pil_to_np(up[c][2].px))

C15_Witness ==
    \E c \in Calls :
        /\ CompareReturned(c)
        /\ DescriptorsOf(pil_to_np(up[c][1].px)) # <<>>
        /\ DescriptorsOf(pil_to_np(up[c][2].px)) # <<>>
        /\ LET matches == BFMatch(DescriptorsOf(pil_to_np(up[c][1].px)),
                                  DescriptorsOf(pil_to_np(up[c][2].px)))
           IN  /\ \E i \in 1..Len(matches) : matches[i] = 60
               /\ \E i \in 1..Len(matches) : matches[i] < 60
        /\ result[c].breakdown.orb.v > 0
        /\ result[c].breakdown.orb.v < Scale

\* C16, as stated: in the keypoint summary total_keypoints is the full
\* keypoint count, keypoint_positions holds exactly the first
\* min(50, total_keypoints) keypoints in detection order, the descriptor hash
\* is null exactly when there are no descriptors, and keypoint_density equals
\* count / total_pixel_count * 1000 (0.0 with no keypoints); the density is
\* kept in hundredths.
C16_KeypointSummary ==
    detected.orb # None =>
        LET n == Len(detected.keypoints)
            o == detected.orb
        IN  /\ o.total_keypoints = n
            /\ o.keypoint_positions = SubSeq(detected.keypoints, 1, IF n < 50 THEN n ELSE 50)
            /\ o.feature_descriptor_hash = NoneHash <=> detected.descriptors = <<>>
            /\ o.keypoint_density * detected.total_pixels = n * 1000 * 100

\* C16, amended: the same, with keypoint_density equal to
\* count / total_pixel_count * 1000 rounded to two decimals (within half a
\* hundredth of it), total_pixel_count being the size of the grid given to
\* extract_orb_features.
C16_KeypointSummaryRounded ==
    detected.orb # None =>
        LET n == Len(detected.keypoints)
            o == detected.orb
            t == detected.total_pixels
        IN  /\ o.total_keypoints = n
            /\ o.keypoint_positions = SubSeq(detected.keypoints, 1, IF n < 50 THEN n ELSE 50)
            /\ Len(o.keypoint_positions) = (IF n < 50 THEN n ELSE 50)
            /\ \A i \in 1..Len(o.keypoint_positions) : o.keypoint_positions[i] = KeypointAt(i)
            /\ o.feature_descriptor_hash = NoneHash <=> detected.descriptors = <<>>
            /\ 2 * (o.keypoint_density * t - n * 1000 * 100) <= t
            /\ 2 * (n * 1000 * 100 - o.keypoint_density * t) <= t
            /\ n = 0 => o.keypoint_density = 0

C16_Witness ==
    /\ detected.orb # None
    /\ Len(detected.keypoints) > 50
    /\ Len(detected.orb.keypoint_positions) = 50
    /\ detected.orb.feature_descriptor_hash # NoneHash
    /\ detected.orb.keypoint_density * detected.total_pixels
           # Len(detected.keypoints) * 1000 * 100

\* C17, as stated: in every successful /compare response is_plagiarism is
\* true if and only if the reported similarity_score, the score rounded to 4
\* decimals, is >= the reported threshold, and the message is "Plagiarism
\* detected" exactly when is_plagiarism is true.
C17_DecisionAgreesWithReported ==
    decided.response # None =>
        LET r == decided.response
        IN  /\ r.is_plagiarism <=>
                   (~r.similarity_score.nan /\ r.similarity_score.v >= r.threshold)
            /\ r.message = "Plagiarism detected" <=> r.is_plagiarism

\* C17, amended: is_plagiarism is true if and only if the score itself, before
\* rounding, is >= the reported threshold; the reported similarity_score is
\* that score rounded to 4 decimals, at most 0.00005 away from it; the message
\* is "Plagiarism detected" exactly when is_plagiarism is true, and the two
\* spellings of each field agree.
C17_DecisionOnUnroundedScore ==
    decided.response # None =>
        LET r == decided.response
            score == decided.result.score
            u == Scale \div 10000
        IN  /\ r.is_plagiarism <=> (~score.nan /\ score.v >= r.threshold)
            /\ r.similarity_score.nan <=> score.nan
            /\ ~score.nan =>
                   /\ r.similarity_score.v % u = 0
                   /\ 2 * (r.similarity_score.v - score.v) <= u
                   /\ 2 * (score.v - r.similarity_score.v) <= u
            /\ r.message = "Plagiarism detected" <=> r.is_plagiarism
            /\ r.message # "Plagiarism detected" => r.message = "No plagiarism detected"
            /\ r.isPlagiarism = r.is_plagiarism
            /\ r.similarityScore = r.similarity_score
            /\ r.threshold = SIMILARITY_THRESHOLD

C17_Witness ==
    /\ decided.response # None
    /\ ~decided.response.is_plagiarism
    /\ ~decided.response.similarity_score.nan
    /\ decided.response.similarity_score.v >= decided.response.threshold
    /\ decided.result.score.v < decided.response.threshold

====
